---- MODULE Spec2Model ----
(***************************************************************************)
(* Model of the parallel coordination layer of project-wiki               *)
(* (src/main_parallel.py, src/pipeline/parallel.py, src/utils/common.py): *)
(* several instances of main(), each with a pool of worker processes,     *)
(* share one marker directory.  The marker directory holds, per input     *)
(* file, a completion marker (<name>.done) and a lock artifact            *)
(* (<name>.lock) that workers lock with flock(LOCK_EX | LOCK_NB).         *)
(*                                                                         *)
(* The filesystem is modelled at the level the code uses it: a path names *)
(* an inode, open() yields a descriptor on the inode the path names at    *)
(* that moment (creating one if the path is absent, truncating it         *)
(* otherwise), flock() locks the inode behind a descriptor, and unlink()  *)
(* removes whatever the path names at that moment.                        *)
(*                                                                         *)
(* src/pipeline/parallel.py with src/utils/common.py is a second copy of  *)
(* the same FileLock / process_single_file code; the model follows        *)
(* src/main_parallel.py, which also holds main().                         *)
(*                                                                         *)
(* Granularity: one action per access to the shared directory.  The pool  *)
(* handing out an item is one step with the first marker check; the pid   *)
(* write is one step with the flock it follows; main() reads all markers  *)
(* in one step (markers are only ever added, so a file marked when the    *)
(* scan starts is marked at every point of it).  Elapsed times and        *)
(* timestamps are left out.                                               *)
(***************************************************************************)
EXTENDS Integers, Sequences, FiniteSets, TLC

(* ---------------------------- bounds ---------------------------------- *)
NumFiles == 2        \* input files found by list_bz2_files
NumInst == 2         \* instances of main() sharing the marker directory
PoolSize == 1        \* worker processes per instance (args.workers)
MaxRuns == 2         \* times one instance may run main() in a row
StreamLen == 1       \* pages (one emitted revision each) per input file
MaxFailures == 1     \* processing attempts that raise, over the execution
MaxCrashes == 1      \* worker processes killed, over the execution
MaxPages == 2        \* pages per dump file (single-process mode)
MaxRevs == 3         \* revisions per dump stream
MaxBatch == 3        \* dump files per batch
MaxCeiling == 2      \* largest --max-pages
MaxLines == 2        \* lines of the bot list file
MaxCadence == 2      \* largest small --log-every
MaxAuthored == 1     \* revisions of the page of the authorship runs

\* default of --log-every
LogEveryDefault == 100000

Files == 1..NumFiles
Insts == 1..NumInst
Workers == 1..(NumInst * PoolSize)
Inodes == 1..(NumInst * PoolSize + NumFiles)
InstOf(w) == ((w - 1) \div PoolSize) + 1

(* --------------------------- data model ------------------------------- *)
\* error field of a ProcessingResult
ErrNone == "None"
ErrCompleted == "Already completed (skipped)"
ErrNoLock == "Could not acquire lock (another process is handling)"
ErrCompletedAfterLock == "Already completed (skipped after lock)"
ErrException == "str(e)"

ProcessingResult(f, s, p, r, e) ==
    [file_path |-> f, success |-> s, page_count |-> p, revision_count |-> r, error |-> e]

\* slot of pool.map's result list that no worker has filled yet
Pending == ProcessingResult(0, FALSE, 0, 0, "pending")

\* content of <name>.done; exists = FALSE stands for an absent file
NoMarker == [exists |-> FALSE, page_count |-> 0, revision_count |-> 0, pid |-> 0]

\* WikipediaRevisionProcessor.__init__: the counters of a fresh processor
NewProcessor == [page_count |-> 0, revision_count |-> 0]

VARIABLES
    marker,      \* marker[f]: content of f's completion marker, or NoMarker
    lockPath,    \* lockPath[f]: inode the path of f's lock artifact names, 0 if absent
    holder,      \* holder[i]: worker whose descriptor holds the flock on inode i, 0 if none
    content,     \* content[i]: pid written in inode i, 0 if the file is empty
    output,      \* output[f]: records of f's output artifact, in file order
    pc,          \* pc[w]: position of worker w in process_single_file
    task,        \* task[w]: index in its instance's worker_args of w's current item
    fd,          \* fd[w]: inode behind FileLock.lock_file of w, 0 if lock_file is None
    processor,   \* processor[w]: counters of w's WikipediaRevisionProcessor
    result,      \* result[w]: the ProcessingResult w is about to return
    ipc,         \* ipc[i]: position of instance i in main()
    worker_args, \* worker_args[i]: files dispatched by the current run of i
    nextTask,    \* nextTask[i]: next item of worker_args[i] the pool hands out
    results,     \* results[i]: results collected by pool.map, by item
    summary,     \* summary[i]: the counts main() logs under SUMMARY
    runs,        \* runs[i]: runs of main() started by instance i
    failures,    \* processing attempts that raised so far
    crashes,     \* workers killed so far
    successes,   \* successes[f]: non-skip successes returned for f so far (history)
    \* single-process mode (src/main.py with src/app/revision_processor.py)
    batch,       \* batch[k]: the pages of the k-th file of list_bz2_files
    max_pages,   \* args.max_pages: <<>> for None, <<m>> for the integer m
    mainpc,      \* position of main(): "loop", "process", "done" or "raised"
    idx,         \* idx of the for loop of main(): files started so far
    page_pos,    \* pages of the current stream the walker has passed
    in_page,     \* TRUE while the revisions of a content page are walked
    rev_pos,     \* revisions of the current page handled so far
    prev_revision_id, \* prev_revision_id of process(): <<>> for None, <<n>> for n
    page_count,  \* processor.page_count
    revision_count, \* processor.revision_count
    finished,    \* processor.finished
    out,         \* records of the output file of main(), in file order
    log_every_n, \* processor.log_every_n
    built,       \* pages of the stream the XML parser has built so far
    \* bot classification (src/processor/revision_processor.py)
    bot_list,    \* processor.bot_list
    username,    \* username argument of detect_bot: <<>> for None, <<s>> for s
    comment,     \* comment argument of detect_bot: <<>> for None, <<s>> for s
    is_bot       \* value returned by detect_bot: <<>> before the call

coordVars == <<marker, lockPath, holder, content, output, pc, task, fd, processor,
               result, ipc, worker_args, nextTask, results, summary, runs,
               failures, crashes, successes>>
singleVars == <<batch, max_pages, mainpc, idx, page_pos, in_page, rev_pos,
                prev_revision_id, page_count, revision_count, finished, out,
                log_every_n, built>>
botVars == <<bot_list, username, comment, is_bot>>

vars == <<coordVars, singleVars, botVars>>

fsVars == <<marker, lockPath, holder, content, output>>
instVars == <<ipc, worker_args, nextTask, results, summary, runs>>

NoSummary == [total |-> 0, processed |-> 0, skipped |-> 0, failed |-> 0,
              total_pages |-> 0, total_revisions |-> 0]

\* the marker directory is empty and no instance of main_parallel runs
CoordInit ==
    /\ marker = [f \in Files |-> NoMarker]
    /\ lockPath = [f \in Files |-> 0]
    /\ holder = [i \in Inodes |-> 0]
    /\ content = [i \in Inodes |-> 0]
    /\ output = [f \in Files |-> <<>>]
    /\ pc = [w \in Workers |-> "idle"]
    /\ task = [w \in Workers |-> 0]
    /\ fd = [w \in Workers |-> 0]
    /\ processor = [w \in Workers |-> NewProcessor]
    /\ result = [w \in Workers |-> Pending]
    /\ ipc = [i \in Insts |-> "start"]
    /\ worker_args = [i \in Insts |-> <<>>]
    /\ nextTask = [i \in Insts |-> 1]
    /\ results = [i \in Insts |-> <<>>]
    /\ summary = [i \in Insts |-> NoSummary]
    /\ runs = [i \in Insts |-> 0]
    /\ failures = 0
    /\ crashes = 0
    /\ successes = [f \in Files |-> 0]

\* main.py is not run: nothing to process, a fresh processor
SingleIdle ==
    /\ batch = <<>>
    /\ max_pages = <<>>
    /\ mainpc = "done"
    /\ idx = 0
    /\ page_pos = 0
    /\ in_page = FALSE
    /\ rev_pos = 0
    /\ prev_revision_id = <<>>
    /\ page_count = 0
    /\ revision_count = 0
    /\ finished = FALSE
    /\ out = <<>>
    /\ log_every_n = LogEveryDefault
    /\ built = 0

\* detect_bot is not called
BotIdle ==
    /\ bot_list = {}
    /\ username = <<>>
    /\ comment = <<>>
    /\ is_bot = <<>>

Init == CoordInit /\ SingleIdle /\ BotIdle

(* ------------------------- pure functions ----------------------------- *)
\* faulty variant: the marker is looked up under a path that never exists
is_completed_Never(f) == FALSE

\* is_completed: done_path.exists()
is_completed(f) == marker[f].exists

\* the file of worker w's current item
FileOf(w) == worker_args[InstOf(w)][task[w]]

\* an inode is alive while a path names it or a descriptor is open on it
Alive(i) == (\E f \in Files : lockPath[f] = i) \/ (\E w \in Workers : fd[w] = i)
FreshInode == CHOOSE i \in Inodes : ~Alive(i) /\ \A j \in Inodes : ~Alive(j) => i <= j

\* the files of a sorted list that satisfy keep, in order
RECURSIVE SelectFiles(_, _)
SelectFiles(n, keep) ==
    IF n = 0 THEN <<>>
    ELSE IF n \in keep THEN Append(SelectFiles(n - 1, keep), n)
         ELSE SelectFiles(n - 1, keep)

RECURSIVE SumPages(_, _)
SumPages(rs, n) == IF n = 0 THEN 0 ELSE rs[n].page_count + SumPages(rs, n - 1)

RECURSIVE SumRevisions(_, _)
SumRevisions(rs, n) == IF n = 0 THEN 0 ELSE rs[n].revision_count + SumRevisions(rs, n - 1)

\* main(), "Tổng kết": the three classes of the summary
IsProcessed(r) == r.success /\ r.error = ErrNone
IsSkipped(r) == r.success /\ r.error # ErrNone
IsFailed(r) == ~r.success

Summarize(rs) ==
    [total |-> Len(rs),
     processed |-> Cardinality({k \in 1..Len(rs) : IsProcessed(rs[k])}),
     skipped |-> Cardinality({k \in 1..Len(rs) : IsSkipped(rs[k])}),
     failed |-> Cardinality({k \in 1..Len(rs) : IsFailed(rs[k])}),
     total_pages |-> SumPages(rs, Len(rs)),
     total_revisions |-> SumRevisions(rs, Len(rs))]

\* fcntl.flock(fd, LOCK_EX | LOCK_NB) succeeds iff no other open file
\* description holds a lock on the inode
FlockSucceeds(i) == holder[i] = 0

\* the inode open(lock_path, 'w') yields: the one the path names, or a new one
OpenInode(f) == IF lockPath[f] = 0 THEN FreshInode ELSE lockPath[f]

\* content of inode i once worker w has closed its descriptor / the path is gone
ContentAfterClose(i, w) ==
    IF (\E f \in Files : lockPath[f] = i) \/ (\E v \in Workers \ {w} : fd[v] = i)
    THEN content ELSE [content EXCEPT ![i] = 0]
ContentAfterUnlink(i) ==
    IF i # 0 /\ ~(\E v \in Workers : fd[v] = i)
    THEN [content EXCEPT ![i] = 0] ELSE content

\* the record the processor emits for page n of a file
Record(n) == n

\* mark_completed: the metadata written to done_path
MarkerOf(res, w) ==
    [exists |-> TRUE, page_count |-> res.page_count,
     revision_count |-> res.revision_count, pid |-> w]

\* faulty variant: a failure is not handed back to pool.map
ReturnResult_DropsFailure(w, res) ==
    /\ results' = IF res.success
                  THEN [results EXCEPT ![InstOf(w)][task[w]] = res]
                  ELSE results
    /\ pc' = [pc EXCEPT ![w] = "idle"]
    /\ task' = [task EXCEPT ![w] = 0]
    /\ result' = [result EXCEPT ![w] = Pending]
    /\ processor' = [processor EXCEPT ![w] = NewProcessor]
    /\ successes' = IF IsProcessed(res)
                    THEN [successes EXCEPT ![res.file_path] = @ + 1]
                    ELSE successes

\* process_single_file returns res: pool.map stores it in the item's slot
\* and the worker is free for the next item
ReturnResult(w, res) ==
    /\ results' = [results EXCEPT ![InstOf(w)][task[w]] = res]
    /\ pc' = [pc EXCEPT ![w] = "idle"]
    /\ task' = [task EXCEPT ![w] = 0]
    /\ result' = [result EXCEPT ![w] = Pending]
    /\ processor' = [processor EXCEPT ![w] = NewProcessor]
    /\ successes' = IF IsProcessed(res)
                    THEN [successes EXCEPT ![res.file_path] = @ + 1]
                    ELSE successes

(* ------------------------------ main() -------------------------------- *)
\* main(): scan the markers, return if nothing is pending, else build
\* worker_args from the files without a marker and start the pool
StartRun(i) ==
    /\ ipc[i] \in {"start", "finished"}
    /\ runs[i] < MaxRuns
    /\ runs' = [runs EXCEPT ![i] = @ + 1]
    /\ LET completed == Cardinality({f \in Files : is_completed(f)})
           pending == NumFiles - completed
           args == SelectFiles(NumFiles, {f \in Files : ~is_completed(f)})
       IN IF pending = 0
          THEN /\ ipc' = [ipc EXCEPT ![i] = "finished"]
               /\ worker_args' = [worker_args EXCEPT ![i] = <<>>]
               /\ results' = [results EXCEPT ![i] = <<>>]
          ELSE /\ ipc' = [ipc EXCEPT ![i] = "running"]
               /\ worker_args' = [worker_args EXCEPT ![i] = args]
               /\ results' = [results EXCEPT ![i] = [k \in 1..Len(args) |-> Pending]]
    /\ nextTask' = [nextTask EXCEPT ![i] = 1]
    /\ summary' = [summary EXCEPT ![i] = NoSummary]
    /\ UNCHANGED <<fsVars, pc, task, fd, processor, result, failures, crashes, successes>>
    /\ UNCHANGED <<singleVars, botVars>>

\* main(): pool.map has returned every result; compute the summary
Finish(i) ==
    /\ ipc[i] = "running"
    /\ \A k \in 1..Len(results[i]) : results[i][k] # Pending
    /\ ipc' = [ipc EXCEPT ![i] = "finished"]
    /\ summary' = [summary EXCEPT ![i] = Summarize(results[i])]
    /\ UNCHANGED <<fsVars, pc, task, fd, processor, result, worker_args,
                   nextTask, results, runs, failures, crashes, successes>>
    /\ UNCHANGED <<singleVars, botVars>>

(* ----------------------- process_single_file -------------------------- *)
\* a pool worker takes the next item and makes the first marker check
CheckCompleted(w) ==
    /\ pc[w] = "idle"
    /\ ipc[InstOf(w)] = "running"
    /\ nextTask[InstOf(w)] <= Len(worker_args[InstOf(w)])
    /\ nextTask' = [nextTask EXCEPT ![InstOf(w)] = @ + 1]
    /\ LET k == nextTask[InstOf(w)]
           f == worker_args[InstOf(w)][k]
       IN IF is_completed(f)
          THEN /\ results' = [results EXCEPT ![InstOf(w)][k] =
                                 ProcessingResult(f, TRUE, 0, 0, ErrCompleted)]
               /\ UNCHANGED <<pc, task>>
          ELSE /\ pc' = [pc EXCEPT ![w] = "open"]
               /\ task' = [task EXCEPT ![w] = k]
               /\ UNCHANGED results
    /\ UNCHANGED <<fsVars, fd, processor, result, ipc, worker_args, summary,
                   runs, failures, crashes, successes>>
    /\ UNCHANGED <<singleVars, botVars>>

\* FileLock.acquire: self.lock_file = open(self.lock_path, 'w')
OpenLock(w) ==
    /\ pc[w] = "open"
    /\ LET i == OpenInode(FileOf(w))
       IN /\ lockPath' = [lockPath EXCEPT ![FileOf(w)] = i]
          /\ content' = [content EXCEPT ![i] = 0]
          /\ fd' = [fd EXCEPT ![w] = i]
    /\ pc' = [pc EXCEPT ![w] = "flock"]
    /\ UNCHANGED <<marker, holder, output, task, processor, result, instVars,
                   failures, crashes, successes>>
    /\ UNCHANGED <<singleVars, botVars>>

\* faulty variant: flock without LOCK_NB waits until the lock is free
Flock_Blocking(w) ==
    /\ pc[w] = "flock"
    /\ FlockSucceeds(fd[w])
    /\ holder' = [holder EXCEPT ![fd[w]] = w]
    /\ content' = [content EXCEPT ![fd[w]] = w]
    /\ pc' = [pc EXCEPT ![w] = "recheck"]
    /\ UNCHANGED <<marker, lockPath, output, fd, task, processor, result,
                   instVars, failures, crashes, successes>>
    /\ UNCHANGED <<singleVars, botVars>>

\* faulty variant: the return value of lock.acquire() is ignored
Flock_IgnoresResult(w) ==
    /\ pc[w] = "flock"
    /\ IF FlockSucceeds(fd[w])
       THEN /\ holder' = [holder EXCEPT ![fd[w]] = w]
            /\ content' = [content EXCEPT ![fd[w]] = w]
       ELSE UNCHANGED <<holder, content>>
    /\ pc' = [pc EXCEPT ![w] = "recheck"]
    /\ UNCHANGED <<marker, lockPath, output, fd, task, processor, result,
                   instVars, failures, crashes, successes>>
    /\ UNCHANGED <<singleVars, botVars>>

\* FileLock.acquire: flock, then write the pid; on failure close and
\* return the "could not acquire" result
Flock(w) ==
    /\ pc[w] = "flock"
    /\ IF FlockSucceeds(fd[w])
       THEN /\ holder' = [holder EXCEPT ![fd[w]] = w]
            /\ content' = [content EXCEPT ![fd[w]] = w]
            /\ pc' = [pc EXCEPT ![w] = "recheck"]
            /\ UNCHANGED <<fd, task, processor, result, results, successes>>
       ELSE /\ fd' = [fd EXCEPT ![w] = 0]
            /\ content' = ContentAfterClose(fd[w], w)
            /\ ReturnResult(w, ProcessingResult(FileOf(w), FALSE, 0, 0, ErrNoLock))
            /\ UNCHANGED holder
    /\ UNCHANGED <<marker, lockPath, output, ipc, worker_args, nextTask,
                   summary, runs, failures, crashes>>
    /\ UNCHANGED <<singleVars, botVars>>

\* faulty variant: no second marker check after the lock is acquired
Recheck_NoDoubleCheck(w) ==
    /\ pc[w] = "recheck"
    /\ processor' = [processor EXCEPT ![w] = NewProcessor]
    /\ pc' = [pc EXCEPT ![w] = "process"]
    /\ UNCHANGED <<fsVars, task, fd, result, instVars, failures, crashes, successes>>
    /\ UNCHANGED <<singleVars, botVars>>

\* the double-check under the lock; if not completed, build the processor
Recheck(w) ==
    /\ pc[w] = "recheck"
    /\ IF is_completed(FileOf(w))
       THEN /\ result' = [result EXCEPT ![w] =
                             ProcessingResult(FileOf(w), TRUE, 0, 0, ErrCompletedAfterLock)]
            /\ pc' = [pc EXCEPT ![w] = "unlock"]
            /\ UNCHANGED processor
       ELSE /\ processor' = [processor EXCEPT ![w] = NewProcessor]
            /\ pc' = [pc EXCEPT ![w] = "process"]
            /\ UNCHANGED result
    /\ UNCHANGED <<fsVars, task, fd, instVars, failures, crashes, successes>>
    /\ UNCHANGED <<singleVars, botVars>>

\* processor.process: one content page is walked, its record appended to
\* the output (opened in append mode) and the counters advanced
ProcessPage(w) ==
    /\ pc[w] = "process"
    /\ processor[w].page_count < StreamLen
    /\ output' = [output EXCEPT ![FileOf(w)] =
                     Append(@, Record(processor[w].page_count + 1))]
    /\ processor' = [processor EXCEPT ![w] =
                        [page_count |-> @.page_count + 1,
                         revision_count |-> @.revision_count + 1]]
    /\ UNCHANGED <<marker, lockPath, holder, content, pc, task, fd, result,
                   instVars, failures, crashes, successes>>
    /\ UNCHANGED <<singleVars, botVars>>

\* faulty variant: the failure reports the counts reached before the error
ProcessRaise_PartialCounts(w) ==
    /\ pc[w] = "process"
    /\ failures < MaxFailures
    /\ failures' = failures + 1
    /\ result' = [result EXCEPT ![w] =
                     ProcessingResult(FileOf(w), FALSE, processor[w].page_count,
                                      processor[w].revision_count, ErrException)]
    /\ pc' = [pc EXCEPT ![w] = "unlock"]
    /\ UNCHANGED <<fsVars, task, fd, processor, instVars, crashes, successes>>
    /\ UNCHANGED <<singleVars, botVars>>

\* faulty variant: the except clause removes the partly written output
ProcessRaise_RollsBack(w) ==
    /\ pc[w] = "process"
    /\ failures < MaxFailures
    /\ failures' = failures + 1
    /\ result' = [result EXCEPT ![w] =
                     ProcessingResult(FileOf(w), FALSE, 0, 0, ErrException)]
    /\ output' = [output EXCEPT ![FileOf(w)] = <<>>]
    /\ pc' = [pc EXCEPT ![w] = "unlock"]
    /\ UNCHANGED <<marker, lockPath, holder, content, task, fd, processor,
                   instVars, crashes, successes>>
    /\ UNCHANGED <<singleVars, botVars>>

\* faulty variant: mark_completed sits in the finally clause
ProcessRaise_MarksCompleted(w) ==
    /\ pc[w] = "process"
    /\ failures < MaxFailures
    /\ failures' = failures + 1
    /\ result' = [result EXCEPT ![w] =
                     ProcessingResult(FileOf(w), FALSE, 0, 0, ErrException)]
    /\ marker' = [marker EXCEPT ![FileOf(w)] =
                     MarkerOf(ProcessingResult(FileOf(w), FALSE, 0, 0, ErrException), w)]
    /\ pc' = [pc EXCEPT ![w] = "unlock"]
    /\ UNCHANGED <<lockPath, holder, content, output, task, fd, processor,
                   instVars, crashes, successes>>
    /\ UNCHANGED <<singleVars, botVars>>

\* an exception inside the try block: the except clause builds the failure
ProcessRaise(w) ==
    /\ pc[w] = "process"
    /\ failures < MaxFailures
    /\ failures' = failures + 1
    /\ result' = [result EXCEPT ![w] =
                     ProcessingResult(FileOf(w), FALSE, 0, 0, ErrException)]
    /\ pc' = [pc EXCEPT ![w] = "unlock"]
    /\ UNCHANGED <<fsVars, task, fd, processor, instVars, crashes, successes>>
    /\ UNCHANGED <<singleVars, botVars>>

\* faulty variant: the pass ends without mark_completed
ProcessEnd_NoMarker(w) ==
    /\ pc[w] = "process"
    /\ processor[w].page_count = StreamLen
    /\ result' = [result EXCEPT ![w] =
                     ProcessingResult(FileOf(w), TRUE, processor[w].page_count,
                                      processor[w].revision_count, ErrNone)]
    /\ pc' = [pc EXCEPT ![w] = "unlock"]
    /\ UNCHANGED <<marker, lockPath, holder, content, output, task, fd, processor,
                   instVars, failures, crashes, successes>>
    /\ UNCHANGED <<singleVars, botVars>>

\* faulty variant: the result is built and marked before the stream ends
ProcessEnd_Early(w) ==
    /\ pc[w] = "process"
    /\ LET res == ProcessingResult(FileOf(w), TRUE, processor[w].page_count,
                                   processor[w].revision_count, ErrNone)
       IN /\ marker' = [marker EXCEPT ![FileOf(w)] = MarkerOf(res, w)]
          /\ result' = [result EXCEPT ![w] = res]
    /\ pc' = [pc EXCEPT ![w] = "unlock"]
    /\ UNCHANGED <<lockPath, holder, content, output, task, fd, processor,
                   instVars, failures, crashes, successes>>
    /\ UNCHANGED <<singleVars, botVars>>

\* the stream is exhausted: build the result and mark_completed
ProcessEnd(w) ==
    /\ pc[w] = "process"
    /\ processor[w].page_count = StreamLen
    /\ LET res == ProcessingResult(FileOf(w), TRUE, processor[w].page_count,
                                   processor[w].revision_count, ErrNone)
       IN /\ marker' = [marker EXCEPT ![FileOf(w)] = MarkerOf(res, w)]
          /\ result' = [result EXCEPT ![w] = res]
    /\ pc' = [pc EXCEPT ![w] = "unlock"]
    /\ UNCHANGED <<lockPath, holder, content, output, task, fd, processor,
                   instVars, failures, crashes, successes>>
    /\ UNCHANGED <<singleVars, botVars>>

\* FileLock.release: fcntl.flock(fd, LOCK_UN)
Unlock(w) ==
    /\ pc[w] = "unlock"
    /\ holder' = [holder EXCEPT ![fd[w]] = IF @ = w THEN 0 ELSE @]
    /\ pc' = [pc EXCEPT ![w] = "close"]
    /\ UNCHANGED <<marker, lockPath, content, output, task, fd, processor,
                   result, instVars, failures, crashes, successes>>
    /\ UNCHANGED <<singleVars, botVars>>

\* FileLock.release: self.lock_file.close(); self.lock_file = None
CloseLock(w) ==
    /\ pc[w] = "close"
    /\ holder' = [holder EXCEPT ![fd[w]] = IF @ = w THEN 0 ELSE @]
    /\ content' = ContentAfterClose(fd[w], w)
    /\ fd' = [fd EXCEPT ![w] = 0]
    /\ pc' = [pc EXCEPT ![w] = "unlink"]
    /\ UNCHANGED <<marker, lockPath, output, task, processor, result,
                   instVars, failures, crashes, successes>>
    /\ UNCHANGED <<singleVars, botVars>>

\* faulty variant: release() leaves the lock artifact in place
Unlink_KeepsArtifact(w) ==
    /\ pc[w] = "unlink"
    /\ ReturnResult(w, result[w])
    /\ UNCHANGED <<marker, lockPath, holder, content, output, fd, ipc,
                   worker_args, nextTask, summary, runs, failures, crashes>>
    /\ UNCHANGED <<singleVars, botVars>>

\* faulty variant: release() removes the artifact only after a clean pass
Unlink_OnlyOnSuccess(w) ==
    /\ pc[w] = "unlink"
    /\ lockPath' = [lockPath EXCEPT ![FileOf(w)] =
                       IF result[w].success THEN 0 ELSE @]
    /\ content' = IF result[w].success
                  THEN ContentAfterUnlink(lockPath[FileOf(w)])
                  ELSE content
    /\ ReturnResult(w, result[w])
    /\ UNCHANGED <<marker, holder, output, fd, ipc, worker_args, nextTask,
                   summary, runs, failures, crashes>>
    /\ UNCHANGED <<singleVars, botVars>>

\* FileLock.release: self.lock_path.unlink() (errors swallowed), then the
\* function returns the result built before the finally clause
Unlink(w) ==
    /\ pc[w] = "unlink"
    /\ lockPath' = [lockPath EXCEPT ![FileOf(w)] = 0]
    /\ content' = ContentAfterUnlink(lockPath[FileOf(w)])
    /\ ReturnResult(w, result[w])
    /\ UNCHANGED <<marker, holder, output, fd, ipc, worker_args, nextTask,
                   summary, runs, failures, crashes>>
    /\ UNCHANGED <<singleVars, botVars>>

\* faulty variant: the lock of a killed worker stays held
Crash_KeepsFlock(w) ==
    /\ pc[w] \notin {"idle", "crashed"}
    /\ crashes < MaxCrashes
    /\ crashes' = crashes + 1
    /\ fd' = [fd EXCEPT ![w] = 0]
    /\ pc' = [pc EXCEPT ![w] = "crashed"]
    /\ UNCHANGED <<marker, lockPath, holder, content, output, task, processor,
                   result, instVars, failures, successes>>
    /\ UNCHANGED <<singleVars, botVars>>

\* the worker process is killed inside process_single_file: the kernel
\* closes its descriptor (dropping its flock); nothing else is cleaned up
Crash(w) ==
    /\ pc[w] \notin {"idle", "crashed"}
    /\ crashes < MaxCrashes
    /\ crashes' = crashes + 1
    /\ IF fd[w] # 0
       THEN /\ holder' = [holder EXCEPT ![fd[w]] = IF @ = w THEN 0 ELSE @]
            /\ content' = ContentAfterClose(fd[w], w)
       ELSE UNCHANGED <<holder, content>>
    /\ fd' = [fd EXCEPT ![w] = 0]
    /\ pc' = [pc EXCEPT ![w] = "crashed"]
    /\ UNCHANGED <<marker, lockPath, output, task, processor, result,
                   instVars, failures, successes>>
    /\ UNCHANGED <<singleVars, botVars>>

Next ==
    \/ \E i \in Insts : StartRun(i)
    \/ \E i \in Insts : Finish(i)
    \/ \E w \in Workers : CheckCompleted(w)
    \/ \E w \in Workers : OpenLock(w)
    \/ \E w \in Workers : Flock(w)
    \/ \E w \in Workers : Recheck(w)
    \/ \E w \in Workers : ProcessPage(w)
    \/ \E w \in Workers : ProcessRaise(w)
    \/ \E w \in Workers : ProcessEnd(w)
    \/ \E w \in Workers : Unlock(w)
    \/ \E w \in Workers : CloseLock(w)
    \/ \E w \in Workers : Unlink(w)
    \/ \E w \in Workers : Crash(w)

Spec == Init /\ [][Next]_vars

\* the code worker w runs next when nothing fails and it is not killed
WorkerStep(w) ==
    \/ OpenLock(w)
    \/ Flock(w)
    \/ Recheck(w)
    \/ ProcessPage(w)
    \/ ProcessEnd(w)
    \/ Unlock(w)
    \/ CloseLock(w)
    \/ Unlink(w)

\* every worker is a process of its own that the operating system keeps
\* running: a worker that can take its next step eventually takes it
SpecLive == Spec /\ \A w \in Workers : WF_vars(WorkerStep(w))

TypeOK ==
    /\ \A f \in Files : lockPath[f] \in Inodes \cup {0}
    /\ \A i \in Inodes : holder[i] \in Workers \cup {0}
    /\ \A w \in Workers : fd[w] \in Inodes \cup {0}

(* ----------------------- single-process mode -------------------------- *)
\* An optional value (None or a value) is a sequence of at most one item.
None == <<>>

\* `not x` for an Optional[str]: None and the empty string are falsy
FalsyStr(x) == x = None \/ x[1] = ""

\* `not x` for the Optional[str] of an <id>, a sequence of characters
FalsyText(x) == x = None \/ x[1] = <<>>

\* `not x` for an Optional[int]: None and 0 are falsy
FalsyInt(x) == x = None \/ x[1] = 0

\* The text of an <id> is the sequence of its characters; the other
\* texts are taken whole.
Digits == <<"0", "1", "2", "3", "4", "5", "6", "7", "8", "9">>

\* the characters of s are decimal digits, and there is at least one
IsNumeral(s) ==
    s # <<>> /\ \A k \in DOMAIN s : \E d \in DOMAIN Digits : Digits[d] = s[k]

\* int(text) raises: TypeError for None, ValueError for a non-numeral
IntRaises(text) == text = None \/ ~IsNumeral(text[1])

\* the value of a numeral
RECURSIVE DecimalValue(_)
DecimalValue(s) ==
    IF s = <<>> THEN 0
    ELSE 10 * DecimalValue(SubSeq(s, 1, Len(s) - 1))
         + (CHOOSE d \in DOMAIN Digits : Digits[d] = s[Len(s)]) - 1

\* int(text) for the text of a numeral
ToInt(text) == DecimalValue(text[1])

\* the numeral of a natural number, as it stands in a dump
RECURSIVE ToText(_)
ToText(n) ==
    IF n < 10 THEN <<Digits[n + 1]>>
    ELSE ToText(n \div 10) \o <<Digits[(n % 10) + 1]>>

\* normalize_text: "" for no text, else markup stripped and blanks trimmed
normalize_text(text) ==
    IF FalsyStr(text) THEN ""
    ELSE IF text[1] = " " THEN ""
    ELSE text[1]

\* faulty variant: only the clean text is tested
IsDropped_IgnoresTimestamp(r) == normalize_text(r.text) = ""

\* _parse_revision returns None: no clean text or no timestamp
IsDropped(r) == normalize_text(r.text) = "" \/ FalsyStr(r.timestamp)

\* faulty variant: the record is put in front of the output
Write_AtFront(o, record) == <<record>> \o o

\* out.write of one record: the output is open in append mode
Write(o, record) == Append(o, record)

\* faulty variant: the ceiling test uses > for >=
CeilingReached_OffByOne(m, n) == ~FalsyInt(m) /\ n > m[1]

\* the ceiling test of process() for max_pages m and page_count n
CeilingReached(m, n) == ~FalsyInt(m) /\ n >= m[1]

\* _parse_revision: user_id, the text of the contributor's <id>
AuthorId(r) == IF r.contributor = None THEN None ELSE r.contributor[1].id

\* _parse_revision: username, the contributor's <username>, else its <ip>
AuthorName(r) ==
    IF r.contributor = None THEN None
    ELSE IF r.contributor[1].username # None THEN r.contributor[1].username
    ELSE r.contributor[1].ip

\* faulty variant: the flag is set only when an <ip> is found
AuthorAnonymous_NeedsIp(r) ==
    /\ r.contributor # None
    /\ r.contributor[1].username = None
    /\ r.contributor[1].ip # None

\* _parse_revision: is_anonymous
AuthorAnonymous(r) == r.contributor # None /\ r.contributor[1].username = None

\* building the RevisionRecord raises: int(rev_id), or int(user_id) of a
\* user_id that is not falsy
ParseRaises(r) ==
    IntRaises(r.id) \/ (~FalsyText(AuthorId(r)) /\ IntRaises(AuthorId(r)))

\* the RevisionRecord _parse_revision builds (the fields the claims read)
RevisionRecord(page_id, r, prev) ==
    [page_id |-> page_id,
     revision_id |-> ToInt(r.id),
     parent_revision_id |-> IF FalsyInt(prev) THEN None ELSE prev,
     timestamp |-> r.timestamp,
     user_id |-> IF FalsyText(AuthorId(r)) THEN None ELSE <<ToInt(AuthorId(r))>>,
     username |-> AuthorName(r),
     is_anonymous |-> AuthorAnonymous(r),
     clean_text |-> normalize_text(r.text)]

\* `self.revision_count % self.log_every_n` raises ZeroDivisionError
ModuloRaises(n) == n = 0

\* sequences over S of length at most n
SeqsUpTo(S, n) == UNION {[1..k -> S] : k \in 0..n}

\* the <revision> elements of the dumps considered
RevisionIds == {<< <<"0">> >>, << <<"1">> >>, << <<"x">> >>}
RevisionElems ==
    {[id |-> i, timestamp |-> c[1], text |-> c[2], contributor |-> None] :
        i \in RevisionIds,
        c \in {<< <<"T">>, <<"a">> >>, << None, <<"a">> >>,
               << <<"">>, <<"a">> >>, << <<"T">>, <<" ">> >>}}

\* the <ns> and <id> of the <page> elements considered
PageHeads ==
    {[ns |-> "0", id |-> << <<"1">> >>], [ns |-> "0", id |-> << <<"2">> >>],
     [ns |-> "1", id |-> << <<"3">> >>], [ns |-> "0", id |-> None]}

\* cnt[1] + ... + cnt[n]
RECURSIVE SumTo(_, _)
SumTo(cnt, n) == IF n = 0 THEN 0 ELSE SumTo(cnt, n - 1) + cnt[n]

\* the dump stream whose j-th page has the head heads[j] and the next
\* cnt[j] revisions of flat
StreamOf(heads, cnt, flat) ==
    [j \in DOMAIN heads |->
        [ns |-> heads[j].ns, id |-> heads[j].id,
         revisions |-> SubSeq(flat, SumTo(cnt, j - 1) + 1, SumTo(cnt, j))]]

\* a page of namespace ns that is the n-th page of a batch: its id is n and
\* it has one revision, which is kept and whose id is n
OrdinalPage(ns, n) ==
    [ns |-> ns, id |-> <<ToText(n)>>,
     revisions |-> IF ns = "0"
                   THEN <<[id |-> <<ToText(n)>>, timestamp |-> <<"T">>,
                           text |-> <<"a">>, contributor |-> None]>>
                   ELSE <<>>]

\* the batch of the given shape (a sequence of files, each a sequence of
\* namespaces), pages numbered file by file
BatchOf(shape) ==
    [k \in DOMAIN shape |->
        [j \in DOMAIN shape[k] |->
            OrdinalPage(shape[k][j], MaxPages * (k - 1) + j)]]

\* the values of --log-every considered
Cadences == 0..MaxCadence \cup {LogEveryDefault}

\* batches of at most MaxBatch files of at most MaxPages pages
Batches ==
    {BatchOf(shape) :
        shape \in SeqsUpTo(SeqsUpTo({"0", "1"}, MaxPages), MaxBatch) \ {<<>>}}

\* main() before its loop: the processor is constructed, nothing is read
SingleStart ==
    /\ mainpc = "loop"
    /\ idx = 0
    /\ page_pos = 0
    /\ in_page = FALSE
    /\ rev_pos = 0
    /\ prev_revision_id = None
    /\ page_count = 0
    /\ revision_count = 0
    /\ finished = FALSE
    /\ out = <<>>
    /\ built = 0

\* main.py on one dump file of at most MaxPages pages and MaxRevs
\* revisions, without --max-pages
ProcInit ==
    /\ CoordInit /\ BotIdle /\ SingleStart
    /\ \E n \in 0..MaxPages :
       \E heads \in [1..n -> PageHeads] :
       \E cnt \in [1..n -> 0..MaxRevs] :
           /\ SumTo(cnt, n) <= MaxRevs
           /\ \E flat \in [1..SumTo(cnt, n) -> RevisionElems] :
                  batch = <<StreamOf(heads, cnt, flat)>>
    /\ max_pages = None
    /\ log_every_n = LogEveryDefault

\* main.py on a batch of dump files, with and without --max-pages
BatchInit ==
    /\ CoordInit /\ BotIdle /\ SingleStart
    /\ batch \in Batches
    /\ max_pages \in {None} \cup {<<m>> : m \in 0..MaxCeiling}
    /\ log_every_n \in Cadences

\* the <contributor> blocks considered: none, or a block whose <id>,
\* <username> and <ip> are each absent or present
Contributors ==
    {None} \cup
    {<<[id |-> i, username |-> u, ip |-> a]>> :
        i \in {None, << <<>> >>, << <<"7">> >>, << <<"x">> >>},
        u \in {None, <<"">>, <<"U">>},
        a \in {None, <<"i">>}}

\* the <revision> elements with a contributor block
AuthoredElems ==
    {[id |-> e.id, timestamp |-> e.timestamp, text |-> e.text, contributor |-> c] :
        e \in RevisionElems, c \in Contributors}

\* main.py on one dump file of one content page whose revisions carry
\* contributor blocks
AuthorInit ==
    /\ CoordInit /\ BotIdle /\ SingleStart
    /\ \E n \in 1..MaxAuthored :
       \E revs \in [1..n -> AuthoredElems] :
           batch = << <<[ns |-> "0", id |-> << <<"1">> >>, revisions |-> revs]>> >>
    /\ max_pages = None
    /\ log_every_n = LogEveryDefault

\* the stream main() is reading and the page the walker stands at
stream == batch[idx]
page == stream[page_pos + 1]
rev == page.revisions[rev_pos + 1]

\* main(): the for loop takes the next file and calls processor.process
MainStartFile ==
    /\ mainpc = "loop"
    /\ idx < Len(batch)
    /\ ~finished
    /\ idx' = idx + 1
    /\ mainpc' = "process"
    /\ page_pos' = 0
    /\ built' = 0
    /\ UNCHANGED <<batch, max_pages, in_page, rev_pos, prev_revision_id,
                   page_count, revision_count, finished, out, log_every_n>>
    /\ UNCHANGED <<coordVars, botVars>>

\* main(): the loop is exhausted or left by `break`; DONE is logged
MainDone ==
    /\ mainpc = "loop"
    /\ (idx = Len(batch) \/ finished)
    /\ mainpc' = "done"
    /\ UNCHANGED <<batch, max_pages, idx, page_pos, in_page, rev_pos,
                   prev_revision_id, page_count, revision_count, finished, out,
                   log_every_n, built>>
    /\ UNCHANGED <<coordVars, botVars>>

\* ET.iterparse: the parser reads the stream chunk by chunk and builds every
\* element of a chunk before the events of the chunk are delivered. When
\* the for loop asks for the next page, a page already built is delivered;
\* otherwise chunks are read until at least the next page is built, and
\* the pages after it that the last chunk holds are built with it.
BuiltAfterRead(b, pos, len) ==
    IF b > pos THEN {b} ELSE (pos + 1)..len

\* faulty variant: prev_revision_id is not reset when a page is entered
PageStep_KeepsPrev ==
    /\ mainpc = "process"
    /\ ~in_page
    /\ page_pos < Len(stream)
    /\ built' \in BuiltAfterRead(built, page_pos, Len(stream))
    /\ IF page.ns # "0"
       THEN /\ page_pos' = page_pos + 1
            /\ UNCHANGED <<mainpc, in_page, rev_pos, prev_revision_id, finished>>
       ELSE IF CeilingReached(max_pages, page_count)
       THEN /\ finished' = TRUE
            /\ mainpc' = "loop"
            /\ UNCHANGED <<page_pos, in_page, rev_pos, prev_revision_id>>
       ELSE IF IntRaises(page.id)
       THEN /\ mainpc' = "raised"
            /\ UNCHANGED <<page_pos, in_page, rev_pos, prev_revision_id, finished>>
       ELSE /\ in_page' = TRUE
            /\ rev_pos' = 0
            /\ UNCHANGED <<mainpc, page_pos, finished, prev_revision_id>>
    /\ UNCHANGED <<batch, max_pages, idx, page_count, revision_count, out,
                   log_every_n>>
    /\ UNCHANGED <<coordVars, botVars>>

\* faulty variant: the ceiling is tested before the namespace
PageStep_CeilingFirst ==
    /\ mainpc = "process"
    /\ ~in_page
    /\ page_pos < Len(stream)
    /\ built' \in BuiltAfterRead(built, page_pos, Len(stream))
    /\ IF CeilingReached(max_pages, page_count)
       THEN /\ finished' = TRUE
            /\ mainpc' = "loop"
            /\ UNCHANGED <<page_pos, in_page, rev_pos, prev_revision_id>>
       ELSE IF page.ns # "0"
       THEN /\ page_pos' = page_pos + 1
            /\ UNCHANGED <<mainpc, in_page, rev_pos, prev_revision_id, finished>>
       ELSE IF IntRaises(page.id)
       THEN /\ mainpc' = "raised"
            /\ UNCHANGED <<page_pos, in_page, rev_pos, prev_revision_id, finished>>
       ELSE /\ in_page' = TRUE
            /\ rev_pos' = 0
            /\ prev_revision_id' = None
            /\ UNCHANGED <<mainpc, page_pos, finished>>
    /\ UNCHANGED <<batch, max_pages, idx, page_count, revision_count, out,
                   log_every_n>>
    /\ UNCHANGED <<coordVars, botVars>>

\* process(): the walker yields the next page: skipped when not in the
\* content namespace, else the ceiling is tested, else the page is entered
PageStep ==
    /\ mainpc = "process"
    /\ ~in_page
    /\ page_pos < Len(stream)
    /\ built' \in BuiltAfterRead(built, page_pos, Len(stream))
    /\ IF page.ns # "0"
       THEN /\ page_pos' = page_pos + 1
            /\ UNCHANGED <<mainpc, in_page, rev_pos, prev_revision_id, finished>>
       ELSE IF CeilingReached(max_pages, page_count)
       THEN /\ finished' = TRUE
            /\ mainpc' = "loop"
            /\ UNCHANGED <<page_pos, in_page, rev_pos, prev_revision_id>>
       ELSE IF IntRaises(page.id)
       THEN /\ mainpc' = "raised"
            /\ UNCHANGED <<page_pos, in_page, rev_pos, prev_revision_id, finished>>
       ELSE /\ in_page' = TRUE
            /\ rev_pos' = 0
            /\ prev_revision_id' = None
            /\ UNCHANGED <<mainpc, page_pos, finished>>
    /\ UNCHANGED <<batch, max_pages, idx, page_count, revision_count, out,
                   log_every_n>>
    /\ UNCHANGED <<coordVars, botVars>>

\* faulty variant: the revision is counted after the progress test
WriteRecord_CountAfterTest(n) ==
    /\ out' = Write(out, RevisionRecord(ToInt(page.id), rev, prev_revision_id))
    /\ prev_revision_id' = <<ToInt(rev.id)>>
    /\ IF ModuloRaises(n)
       THEN mainpc' = "raised" /\ UNCHANGED <<rev_pos, revision_count>>
       ELSE /\ rev_pos' = rev_pos + 1
            /\ revision_count' = revision_count + 1
            /\ UNCHANGED mainpc

\* process(), lines 67 to 80, for the cadence n: the record is written, it
\* becomes the previous revision, the revision is counted, the progress
\* test is evaluated (a progress line changes no state), the revision is
\* cleared
WriteRecord(n) ==
    /\ out' = Write(out, RevisionRecord(ToInt(page.id), rev, prev_revision_id))
    /\ prev_revision_id' = <<ToInt(rev.id)>>
    /\ revision_count' = revision_count + 1
    /\ IF ModuloRaises(n)
       THEN mainpc' = "raised" /\ UNCHANGED rev_pos
       ELSE rev_pos' = rev_pos + 1 /\ UNCHANGED mainpc

\* process(): one revision of the page: dropped, or its record is written
\* and becomes the previous revision; int() of a bad id raises
RevisionStep ==
    /\ mainpc = "process"
    /\ in_page
    /\ rev_pos < Len(page.revisions)
    /\ IF IsDropped(rev)
       THEN /\ rev_pos' = rev_pos + 1
            /\ UNCHANGED <<mainpc, prev_revision_id, revision_count, out>>
       ELSE IF ParseRaises(rev)
       THEN /\ mainpc' = "raised"
            /\ UNCHANGED <<rev_pos, prev_revision_id, revision_count, out>>
       ELSE WriteRecord(log_every_n)
    /\ UNCHANGED <<batch, max_pages, idx, page_pos, in_page, page_count, finished,
                   log_every_n, built>>
    /\ UNCHANGED <<coordVars, botVars>>

\* process(): the revisions of the page are exhausted; the page is counted
EndPage ==
    /\ mainpc = "process"
    /\ in_page
    /\ rev_pos = Len(page.revisions)
    /\ in_page' = FALSE
    /\ page_pos' = page_pos + 1
    /\ page_count' = page_count + 1
    /\ UNCHANGED <<batch, max_pages, mainpc, idx, rev_pos, prev_revision_id,
                   revision_count, finished, out, log_every_n, built>>
    /\ UNCHANGED <<coordVars, botVars>>

\* process(): the stream is exhausted; the output is closed
EndStream ==
    /\ mainpc = "process"
    /\ ~in_page
    /\ page_pos = Len(stream)
    /\ mainpc' = "loop"
    /\ UNCHANGED <<batch, max_pages, idx, page_pos, in_page, rev_pos,
                   prev_revision_id, page_count, revision_count, finished, out,
                   log_every_n, built>>
    /\ UNCHANGED <<coordVars, botVars>>

SingleNext ==
    \/ MainStartFile
    \/ MainDone
    \/ PageStep
    \/ RevisionStep
    \/ EndPage
    \/ EndStream

SpecProc == ProcInit /\ [][SingleNext]_vars

SpecBatch == BatchInit /\ [][SingleNext]_vars

SpecAuthor == AuthorInit /\ [][SingleNext]_vars

(* ------------------------- bot classification ------------------------- *)
\* A str is the sequence of its characters; an Optional[str] is None or
\* the one-item sequence holding the str.

\* the upper-case letters of the names considered and their lower case
UpperCase == <<"A", "B", "O", "S", "T">>
LowerCase == <<"a", "b", "o", "s", "t">>

\* str.lower() of one character
LowerChar(c) ==
    IF \E k \in DOMAIN UpperCase : UpperCase[k] = c
    THEN LowerCase[CHOOSE k \in DOMAIN UpperCase : UpperCase[k] = c]
    ELSE c

\* str.lower()
lower(s) == [k \in DOMAIN s |-> LowerChar(s[k])]

\* `sub in s` for two strs
Contains(sub, s) ==
    \E i \in 0..(Len(s) - Len(sub)) : SubSeq(s, i + 1, i + Len(sub)) = sub

\* str.strip(): leading and trailing blanks removed
RECURSIVE strip(_)
strip(s) ==
    IF s = <<>> THEN s
    ELSE IF Head(s) = " " THEN strip(Tail(s))
    ELSE IF s[Len(s)] = " " THEN strip(SubSeq(s, 1, Len(s) - 1))
    ELSE s

\* _load_bot_list: the set of the stripped lines of the bot list file
load_bot_list(lines) == {strip(lines[k]) : k \in DOMAIN lines}

\* bot_indicators of detect_bot
bot_indicators ==
    {<<"b", "o", "t">>, <<"a", "u", "t", "o">>,
     <<"s", "c", "r", "i", "p", "t">>,
     <<"c", "r", "a", "w", "l", "e", "r">>,
     <<"s", "p", "i", "d", "e", "r">>}

\* `not x` for an Optional[str] x: None and the empty str are falsy
Falsy(x) == x = None \/ x[1] = <<>>

\* faulty variant: the indicators are matched without lower()
detect_bot_CaseSensitive(list, name, text) ==
    IF Falsy(name) /\ Falsy(text) THEN FALSE
    ELSE IF name # None /\ name[1] \in list THEN TRUE
    ELSE LET u == IF Falsy(name) THEN <<>> ELSE name[1]
             c == IF Falsy(text) THEN <<>> ELSE text[1]
         IN  \E ind \in bot_indicators : Contains(ind, u) \/ Contains(ind, c)

\* detect_bot(username, comment) with self.bot_list = list
detect_bot(list, name, text) ==
    IF Falsy(name) /\ Falsy(text) THEN FALSE
    ELSE IF name # None /\ name[1] \in list THEN TRUE
    ELSE LET u == IF Falsy(name) THEN <<>> ELSE lower(name[1])
             c == IF Falsy(text) THEN <<>> ELSE lower(text[1])
         IN  \E ind \in bot_indicators : Contains(ind, u) \/ Contains(ind, c)

\* the lines of the bot list files considered (a blank line among them)
BotListLines == {<<>>, <<"A">>, <<"x", "B", "o", "t", " ">>}

\* the display names considered: a word between a prefix and a suffix
NameWords ==
    {<<>>, <<"A">>, <<"b", "o">>, <<"o", "t">>, <<"b", "o", "t">>,
     <<"B", "o", "t">>, <<"B", "O", "T">>, <<"A", "u", "t", "o">>,
     <<"s", "c", "r", "i", "p", "t">>, <<"c", "r", "a", "w", "l", "e", "r">>,
     <<"S", "p", "i", "d", "e", "r">>}
Names ==
    {pre \o w \o suf : pre \in {<<>>, <<"x">>}, w \in NameWords,
                       suf \in {<<>>, <<"4", "2">>}}

\* the comments considered
Comments ==
    {<<>>, <<"f", "i", "x">>, <<"a", "u", "t", "o", "-", "f", "i", "x">>,
     <<"B", "y", " ", "S", "c", "r", "i", "p", "t">>}

\* a processor whose bot list is loaded, and the contributor name and the
\* comment of one revision, before detect_bot is called
BotInit ==
    /\ CoordInit /\ SingleIdle
    /\ \E lines \in SeqsUpTo(BotListLines, MaxLines) : bot_list = load_bot_list(lines)
    /\ username \in {None} \cup {<<n>> : n \in Names}
    /\ comment \in {None} \cup {<<c>> : c \in Comments}
    /\ is_bot = None

\* _parse_revision calls detect_bot for the revision
DetectBot ==
    /\ is_bot = None
    /\ is_bot' = <<detect_bot(bot_list, username, comment)>>
    /\ UNCHANGED <<bot_list, username, comment>>
    /\ UNCHANGED <<coordVars, singleVars>>

BotNext == DetectBot

SpecBot == BotInit /\ [][BotNext]_vars

(* ------------------------ derived predicates -------------------------- *)
\* w is inside process_single_file with an item
Active(w) == pc[w] \notin {"idle", "crashed"}

\* w's descriptor holds the advisory lock
HoldsLock(w) == fd[w] # 0 /\ holder[fd[w]] = w

\* the step in which w returns from process_single_file, and what it returns
Returns(w) == pc[w] \notin {"idle", "crashed"} /\ pc'[w] = "idle"
Returned(w) == results'[InstOf(w)][task[w]]

\* results that report an invocation that had acquired the lock
AcquiredErrors == {ErrNone, ErrCompletedAfterLock, ErrException}

\* lock.acquire() on f's lock artifact would succeed in this state
AcquireWouldSucceed(f) == FlockSucceeds(OpenInode(f))

\* FileState of section 3, derived from the marker and the lock
FileState(f) ==
    IF marker[f].exists THEN "done"
    ELSE IF \E w \in Workers : Active(w) /\ HoldsLock(w) /\ FileOf(w) = f THEN "locked"
    ELSE "pending"

\* the revision has no timestamp, or no text once cleaned
DropCase(r) == r.timestamp = None \/ r.timestamp = <<"">> \/ normalize_text(r.text) = ""

\* process() is about to handle the revision `rev` of `page`
AtRevision == mainpc = "process" /\ in_page /\ rev_pos < Len(page.revisions)

\* the step writes a record to the output of main()
Emits == Len(out') = Len(out) + 1

\* the revisions of `page` handled so far whose record was written
EmittedOfPage == {k \in 1..rev_pos : ~DropCase(page.revisions[k])}

\* the last of them
LastEmitted == CHOOSE k \in EmittedOfPage : \A j \in EmittedOfPage : j <= k

\* the <id> texts of page p and of its revisions among the first n that
\* are not dropped, in document order
RECURSIVE KeptOf(_, _)
KeptOf(p, n) ==
    IF n = 0 THEN <<>>
    ELSE KeptOf(p, n - 1)
         \o (IF DropCase(p.revisions[n]) THEN <<>>
             ELSE << <<p.id, p.revisions[n].id>> >>)

\* the same for the content pages among the first n pages of stream s
RECURSIVE KeptUpTo(_, _)
KeptUpTo(s, n) ==
    IF n = 0 THEN <<>>
    ELSE KeptUpTo(s, n - 1)
         \o (IF s[n].ns = "0" THEN KeptOf(s[n], Len(s[n].revisions)) ELSE <<>>)

\* the page id and revision id of each record of the output, as texts
Identities(o) ==
    [k \in 1..Len(o) |-> << <<ToText(o[k].page_id)>>, <<ToText(o[k].revision_id)>> >>]

\* page p is a content page whose id is an integer
WellFormedPage(p) == p.ns = "0" /\ ~IntRaises(p.id)

\* revision r is to be kept and its id is an integer
WellFormedKept(r) == ~DropCase(r) /\ ~IntRaises(r.id)

\* p is a page of the content namespace
IsContent(p) == p.ns = "0"

\* the content pages of the first n files of batch b, file by file and in
\* document order within a file
RECURSIVE Qualifying(_, _)
Qualifying(b, n) ==
    IF n = 0 THEN <<>> ELSE Qualifying(b, n - 1) \o SelectSeq(b[n], IsContent)

\* the ids of the kept revisions of the first n pages of the sequence ps
RECURSIVE KeptOfPages(_, _)
KeptOfPages(ps, n) ==
    IF n = 0 THEN <<>>
    ELSE KeptOfPages(ps, n - 1) \o KeptOf(ps[n], Len(ps[n].revisions))

\* the smaller of two numbers
Min(a, b) == IF a <= b THEN a ELSE b

\* sequence a is an initial part of sequence b
IsPrefix(a, b) == Len(a) <= Len(b) /\ SubSeq(b, 1, Len(a)) = a

\* --max-pages was given with a value of at least 1
HasCeiling == max_pages # None /\ max_pages[1] >= 1

\* indicator ind occurs in the Optional[str] x, letter case ignored
OccursIn(ind, x) ==
    /\ x # None
    /\ \E i \in 0..(Len(x[1]) - Len(ind)) :
           \A k \in 1..Len(ind) : LowerChar(x[1][i + k]) = ind[k]

\* the display name is a member of the known-bots set, or an indicator
\* occurs in the display name or in the comment
KnownOrIndicated ==
    \/ (username # None /\ username[1] \in bot_list)
    \/ \E ind \in bot_indicators : OccursIn(ind, username) \/ OccursIn(ind, comment)

\* worker v was killed while it held the lock for f and before it built a
\* result: f's lock artifact is still there, with v's pid in it, and f has
\* no marker
Stale(f, v) ==
    /\ pc[v] = "crashed"
    /\ FileOf(v) = f
    /\ result[v] = Pending
    /\ lockPath[f] # 0
    /\ content[lockPath[f]] = v
    /\ ~marker[f].exists

\* a running worker holds a flock on the file f's lock path names
HeldByLiveWorker(f) ==
    \E w \in Workers : Active(w) /\ HoldsLock(w) /\ fd[w] = lockPath[f]

\* the page counts, and the revision counts, of the processed results
\* among the first n of rs, summed
RECURSIVE ProcessedPages(_, _)
ProcessedPages(rs, n) ==
    IF n = 0 THEN 0
    ELSE ProcessedPages(rs, n - 1)
         + (IF rs[n].success /\ rs[n].error = ErrNone THEN rs[n].page_count ELSE 0)

RECURSIVE ProcessedRevisions(_, _)
ProcessedRevisions(rs, n) ==
    IF n = 0 THEN 0
    ELSE ProcessedRevisions(rs, n - 1)
         + (IF rs[n].success /\ rs[n].error = ErrNone THEN rs[n].revision_count ELSE 0)

\* every invocation of process_single_file for f has returned
AllReturned(f) == \A w \in Workers : Active(w) => FileOf(w) # f

\* w is between a successful lock.acquire() and its lock.release()
InsideLock(w) == pc[w] \in {"recheck", "process", "unlock"}

\* the pages of the stream that are built and not yet cleared: the page
\* being handled and the pages the parser has built after it
ResidentPages ==
    IF mainpc = "process" THEN {k \in 1..Len(stream) : page_pos < k /\ k <= built}
    ELSE {}

\* the revisions of the k-th page of the stream that are built when the
\* parser has built b pages (a page is built with all its revisions)
BuiltRevisions(k, b) == IF k <= b THEN Len(stream[k].revisions) ELSE 0

\* the step discards the k-th page of the stream as non-content
Discards(k) ==
    /\ mainpc = "process"
    /\ ~in_page
    /\ page_pos = k - 1
    /\ page_pos' = k
    /\ stream[k].ns # "0"

\* the content pages the processor has walked to their end: those of the
\* files before the current one and those passed in the current file
TraversedContent ==
    IF idx = 0 THEN 0
    ELSE Len(Qualifying(batch, idx - 1))
         + Len(SelectSeq(SubSeq(batch[idx], 1, page_pos), IsContent))

\* the walker stands at a page outside the content namespace
AtNonContent ==
    mainpc = "process" /\ ~in_page /\ page_pos < Len(stream) /\ page.ns # "0"

(* ------------------------------ claims -------------------------------- *)
\* C1: no two workers are at the same time past a successful acquire for
\* the same file and running the processor on it.
C1_MutualExclusion ==
    \A w, v \in Workers :
        (w # v /\ pc[w] = "process" /\ pc[v] = "process") => FileOf(w) # FileOf(v)

\* C2: over all workers and runs, at most one invocation per file ever
\* returns a non-skip success (success = True, error = None).
C2_AtMostOneSuccess == \A f \in Files : successes[f] <= 1

\* C3: once a completion marker exists it is never deleted and never
\* written again (its content never changes).
C3_MarkerImmutable ==
    [][\A f \in Files : marker[f].exists => marker'[f] = marker[f]]_vars

\* C4: the derived FileState of a file changes only by pending -> locked,
\* locked -> done and locked -> pending; done is absorbing and no file
\* goes from pending to done without being locked.
C4_FileStateTransitions ==
    [][\A f \in Files :
          \/ FileState(f)' = FileState(f)
          \/ <<FileState(f), FileState(f)'>> \in
                 {<<"pending", "locked">>, <<"locked", "done">>, <<"locked", "pending">>}]_vars

\* a file that was locked, fell back to pending on a failure and is now done
C4_Witness ==
    \E i \in Insts : \E k \in 1..Len(results[i]) :
        /\ results[i][k].error = ErrException
        /\ FileState(results[i][k].file_path) = "done"

\* C5: an invocation for a file that bears a marker returns the "already
\* completed" skip (success, zero counts) and leaves the lock artifact, the
\* output and the marker alone; a run dispatches no file bearing a marker.
C5_IdempotentResumption ==
    [][/\ \A i \in Insts :
             ( /\ ipc[i] = "running"
               /\ nextTask'[i] = nextTask[i] + 1
               /\ marker[worker_args[i][nextTask[i]]].exists )
             => /\ results'[i][nextTask[i]] =
                      ProcessingResult(worker_args[i][nextTask[i]], TRUE, 0, 0, ErrCompleted)
                /\ UNCHANGED <<marker, lockPath, holder, content, output, pc, fd>>
       /\ \A i \in Insts :
             (ipc[i] # "running" /\ ipc'[i] = "running")
             => \A k \in 1..Len(worker_args'[i]) : ~marker[worker_args'[i][k]].exists]_vars

\* a run that left a marked file out, and an invocation that skipped one
C5_Witness ==
    /\ \E i \in Insts : ipc[i] = "running" /\ Len(worker_args[i]) < NumFiles
    /\ \E i \in Insts : \E k \in 1..Len(results[i]) : results[i][k].error = ErrCompleted

\* C6: when the processor raises, the invocation writes no marker and
\* returns success = False with the error text; once it has returned its
\* lock is gone, so the next acquire attempt for the file succeeds.
C6_FailureLeavesFileEligible ==
    [][\A w \in Workers :
          /\ (pc[w] = "process" /\ pc'[w] = "unlock" /\ result'[w].error = ErrException)
             => (marker' = marker /\ ~result'[w].success)
          /\ (Active(w) /\ result[w].error = ErrException /\ pc'[w] # pc[w])
             => marker' = marker
          /\ (Returns(w) /\ Returned(w).error = ErrException)
             => \E f \in Files :
                    /\ f = FileOf(w)
                    /\ Returned(w) = ProcessingResult(f, FALSE, 0, 0, ErrException)
                    /\ fd'[w] = 0
                    /\ \A i \in Inodes : holder'[i] # w
                    /\ AcquireWouldSucceed(f)']_vars

\* a worker processes a file for which an earlier attempt returned a failure
C6_Witness ==
    \E w \in Workers : \E i \in Insts : \E k \in 1..Len(results[i]) :
        /\ pc[w] = "process"
        /\ results[i][k].error = ErrException
        /\ results[i][k].file_path = FileOf(w)

\* C7: whenever an invocation that had acquired the lock returns (success,
\* skip after lock, or exception), the worker holds no advisory lock, its
\* descriptor is closed and the lock artifact has been removed.
C7_LockReleasedOnReturn ==
    [][\A w \in Workers :
          (Returns(w) /\ Returned(w).error \in AcquiredErrors)
          => /\ fd'[w] = 0
             /\ \A i \in Inodes : holder'[i] # w
             /\ lockPath'[FileOf(w)] = 0]_vars

\* results of a skip after lock and of an exception have both been returned
C7_Witness ==
    /\ \E i \in Insts : \E k \in 1..Len(results[i]) :
           results[i][k].error = ErrCompletedAfterLock
    /\ \E i \in Insts : \E k \in 1..Len(results[i]) :
           results[i][k].error = ErrException

\* C8: a worker that finds the marker at its re-check under the lock never
\* starts the processor: it returns the skip with zero counts and writes
\* nothing to the output.
C8_DoubleCheck ==
    [][\A w \in Workers :
          /\ (pc[w] = "recheck" /\ pc'[w] = "process") => ~marker[FileOf(w)].exists
          /\ (pc[w] = "recheck" /\ pc'[w] \notin {"recheck", "crashed"}
                /\ marker[FileOf(w)].exists)
             => /\ pc'[w] = "unlock"
                /\ result'[w] = ProcessingResult(FileOf(w), TRUE, 0, 0, ErrCompletedAfterLock)
                /\ output' = output
          /\ (Active(w) /\ result[w].error = ErrCompletedAfterLock /\ pc'[w] # pc[w])
             => /\ output' = output
                /\ marker' = marker
                /\ Returns(w) => Returned(w) = result[w]]_vars

\* a skip after lock has been returned for a file another worker completed
C8_Witness ==
    \E i \in Insts : \E k \in 1..Len(results[i]) :
        /\ results[i][k] = ProcessingResult(worker_args[i][k], TRUE, 0, 0, ErrCompletedAfterLock)
        /\ marker[worker_args[i][k]].pid \notin {w \in Workers : InstOf(w) = i}

\* C9: a run that ends has exactly one result per dispatched file, each for
\* its own file, whatever the outcomes; and a failure never stops the pool:
\* while items are left, some worker is busy or an item can be handed out.
C9_ErrorIsolation ==
    \A i \in Insts :
        /\ (ipc[i] = "finished" /\ worker_args[i] # <<>>)
           => /\ Len(results[i]) = Len(worker_args[i])
              /\ \A k \in 1..Len(results[i]) :
                     /\ results[i][k] # Pending
                     /\ results[i][k].file_path = worker_args[i][k]
        /\ ( /\ ipc[i] = "running"
             /\ \A w \in Workers : InstOf(w) = i => pc[w] = "idle"
             /\ \E k \in 1..Len(results[i]) : results[i][k] = Pending )
           => nextTask[i] <= Len(worker_args[i])

\* a finished run whose first file failed and whose second was processed
C9_Witness ==
    \E i \in Insts :
        /\ ipc[i] = "finished"
        /\ Len(results[i]) = 2
        /\ results[i][1].error = ErrException
        /\ results[i][2].error = ErrNone

\* C10: a result that reports lock contention is classified as skipped,
\* not as failed, in the results and in the summary.
C10_ContentionIsSkip ==
    \A i \in Insts :
        /\ \A k \in 1..Len(results[i]) :
               results[i][k].error = ErrNoLock
               => (IsSkipped(results[i][k]) /\ ~IsFailed(results[i][k]))
        /\ (ipc[i] = "finished" /\ worker_args[i] # <<>>)
           => summary[i].skipped =
                  Cardinality({k \in 1..Len(results[i]) :
                                  results[i][k].error \in
                                      {ErrCompleted, ErrCompletedAfterLock, ErrNoLock}})

\* C11: after any sequence of attempts on a file, its output artifact
\* holds each revision record of the file at most once.
C11_NoRecordTwice ==
    \A f \in Files :
        \A a, b \in 1..Len(output[f]) :
            a # b => output[f][a] # output[f][b]

\* C18: when processing of a file aborts with an exception, the records
\* written before it stay in the output artifact in the order written (no
\* step ever removes or reorders records of an output) and the result of
\* the aborted invocation carries the error text with success = False.
C18_NoRollback ==
    [][ /\ \A f \in Files :
              /\ Len(output'[f]) >= Len(output[f])
              /\ SubSeq(output'[f], 1, Len(output[f])) = output[f]
        /\ \A w \in Workers :
              (pc[w] = "process" /\ pc'[w] = "unlock" /\ failures' = failures + 1)
              => /\ result'[w].success = FALSE
                 /\ result'[w].error = ErrException
                 /\ output' = output
        /\ \A w \in Workers :
              (Returns(w) /\ result[w].error = ErrException)
              => Returned(w) = result[w] ]_vars

\* a file whose first attempt wrote a record and then aborted, reported as
\* failed, and which a later attempt is processing again
C18_Witness ==
    \E i \in Insts : \E k \in 1..Len(results[i]) : \E w \in Workers :
        /\ results[i][k].error = ErrException
        /\ pc[w] = "process"
        /\ FileOf(w) = results[i][k].file_path
        /\ Len(output[FileOf(w)]) > StreamLen

\* C12: in every page whose revisions carry integer ids (ids >= 0), the
\* record of the N-th emitted revision (N > 1) has parent_revision_id equal
\* to the revision id of the (N-1)-th emitted revision of that page, the
\* dropped revisions in between being skipped.
C12_LineageAcrossDrops ==
    [][ (AtRevision /\ Emits /\ EmittedOfPage # {})
        => out'[Len(out')].parent_revision_id =
               <<ToInt(page.revisions[LastEmitted].id)>> ]_vars

\* C13: the parent_revision_id of every emitted record is null or the
\* revision id of a record emitted earlier in the run for the same page,
\* and the first emitted revision of every page has a null parent.
C13_ParentWithinPage ==
    [][ (AtRevision /\ Emits)
        => LET parent == out'[Len(out')].parent_revision_id
               first == Len(out) - Cardinality(EmittedOfPage) + 1
           IN  /\ EmittedOfPage = {} => parent = None
               /\ parent # None
                  => \E m \in first..Len(out) :
                         /\ out[m].revision_id = parent[1]
                         /\ out[m].page_id = out'[Len(out')].page_id ]_vars

\* a run that emitted a record with a parent for the first page and then
\* the first record of the second page
C13_Witness ==
    /\ mainpc = "done"
    /\ Len(out) = 3
    /\ out[2].parent_revision_id = <<out[1].revision_id>>
    /\ out[3].page_id # out[2].page_id
    /\ out[3].parent_revision_id = None

\* C14: a revision whose timestamp is missing or empty, or whose cleaned
\* text is empty, is passed without writing a record, without counting a
\* revision and without changing the last emitted revision id of the page.
C14_DropRule ==
    [][ (AtRevision /\ DropCase(rev))
        => /\ out' = out
           /\ revision_count' = revision_count
           /\ prev_revision_id' = prev_revision_id
           /\ rev_pos' = rev_pos + 1
           /\ mainpc' = mainpc ]_vars

\* a finished run over a page whose second revision, between two emitted
\* ones, had no timestamp and an id that is not an integer
C14_Witness ==
    /\ mainpc = "done"
    /\ Len(batch[1]) = 1
    /\ Len(batch[1][1].revisions) = 3
    /\ batch[1][1].revisions[2].timestamp = None
    /\ batch[1][1].revisions[2].id = << <<"x">> >>
    /\ revision_count = 2
    /\ Len(out) = 2
    /\ out[2].parent_revision_id = <<out[1].revision_id>>

\* C19: within one file the records are written in the order of the pages
\* in the stream and, within a page, of its revisions: at every moment the
\* output is the sequence, in document order, of the revisions passed so
\* far that are not dropped and belong to content pages, and after a
\* complete walk it is that sequence for the whole stream.
C19_DocumentOrder ==
    /\ idx = 0 => out = <<>>
    /\ idx = 1 =>
          Identities(out) =
              KeptUpTo(stream, page_pos)
              \o (IF in_page THEN KeptOf(page, rev_pos) ELSE <<>>)
    /\ mainpc = "done" => Identities(out) = KeptUpTo(batch[1], Len(batch[1]))

\* a complete walk over a non-content page with a revision and a content
\* page with a dropped revision between two kept ones of different ids
C19_Witness ==
    /\ mainpc = "done"
    /\ Len(batch[1]) = 2
    /\ batch[1][1].ns = "1"
    /\ Len(batch[1][1].revisions) = 1
    /\ Len(batch[1][2].revisions) = 2
    /\ Len(out) = 2
    /\ out[1].revision_id # out[2].revision_id

\* C17: a revision or page whose id is missing or not an integer is
\* skipped alone: when the run has ended, every kept revision with an
\* integer id of every content page with an integer id has its record in
\* the output.
C17_MalformedRecoverable ==
    mainpc \in {"done", "raised"}
    => \A f \in 1..Len(batch) : \A j \in 1..Len(batch[f]) :
           WellFormedPage(batch[f][j])
           => \A k \in 1..Len(batch[f][j].revisions) :
                  WellFormedKept(batch[f][j].revisions[k])
                  => \E m \in 1..Len(out) :
                         /\ out[m].page_id = ToInt(batch[f][j].id)
                         /\ out[m].revision_id = ToInt(batch[f][j].revisions[k].id)

\* C15: with a ceiling M >= 1 over an ordered batch of files, page_count
\* never exceeds M, the output never holds anything but the records of
\* the first min(M, total) content pages in file-then-document order, and
\* when main() is done it holds exactly those.
C15_CeilingBoundsOutput ==
    HasCeiling
    => LET all == Qualifying(batch, Len(batch))
           expected == KeptOfPages(all, Min(max_pages[1], Len(all)))
       IN  /\ page_count <= max_pages[1]
           /\ IsPrefix(Identities(out), expected)
           /\ mainpc = "done" => Identities(out) = expected

\* main() is done with ceiling 2 over a batch with 5 content pages
C15_Witness ==
    /\ mainpc = "done"
    /\ max_pages = <<2>>
    /\ Len(Qualifying(batch, Len(batch))) = 5
    /\ page_count = 2
    /\ Len(out) = 2
    /\ finished

\* C16: once page_count has reached the ceiling (M >= 1), the processor
\* has finished = True when control is back in main(), and main() starts
\* no further file of the batch.
C16_CeilingStopsBatch ==
    /\ []((HasCeiling /\ page_count >= max_pages[1] /\ mainpc = "loop") => finished)
    /\ [][(HasCeiling /\ page_count >= max_pages[1]) => idx' = idx]_vars

\* C20: is_bot is true if and only if the display name is an exact member
\* of the known-bots set or an indicator of the vocabulary occurs, letter
\* case ignored, in the display name or in the comment.
C20_BotClassification ==
    is_bot # None => (is_bot[1] <=> KnownOrIndicated)

\* C20 as amended: a revision with neither a display name nor a comment
\* (each missing or empty) is never a bot; for every other revision is_bot
\* is true if and only if the display name is an exact member of the
\* known-bots set or an indicator occurs, letter case ignored, in the
\* display name or in the comment.
C20_BotClassificationGuarded ==
    is_bot # None
    => (is_bot[1] <=> ( /\ ~(username \in {None, << <<>> >>} /\ comment \in {None, << <<>> >>})
                        /\ KnownOrIndicated ))

\* author 'Bot42', not in the known-bots set, with comment 'auto-fix':
\* classified as a bot
C20_Witness ==
    /\ username = << <<"B", "o", "t", "4", "2">> >>
    /\ comment = << <<"a", "u", "t", "o", "-", "f", "i", "x">> >>
    /\ bot_list = {<<"A">>}
    /\ is_bot = <<TRUE>>

\* C23: after a worker is killed while holding the lock for F (no marker
\* written), every acquire attempt for F fails as long as the orphaned lock
\* artifact is there.
C23_StaleLockBlocks ==
    \A f \in Files : \A v \in Workers :
        Stale(f, v) => ~AcquireWouldSucceed(f)

\* C23 as amended: killing a worker removes no lock artifact, so the one of
\* a worker killed while holding the lock stays behind; it does not block,
\* though: an acquire attempt for F fails only while a running worker holds
\* the lock, and succeeds otherwise.
C23_StaleLockReacquirable ==
    /\ [](\A f \in Files : \A v \in Workers :
             Stale(f, v) => (AcquireWouldSucceed(f) <=> ~HeldByLiveWorker(f)))
    /\ [][\A w \in Workers :
             (pc[w] # "crashed" /\ pc'[w] = "crashed") => lockPath' = lockPath]_vars

\* a worker was killed after it wrote a page under the lock, and another
\* worker has since acquired the lock for the same file and is processing
C23_Witness ==
    \E v, w \in Workers :
        /\ pc[v] = "crashed"
        /\ processor[v].page_count = StreamLen
        /\ pc[w] = "process"
        /\ FileOf(w) = FileOf(v)
        /\ fd[w] = lockPath[FileOf(w)]
        /\ HoldsLock(w)

\* C24: a lock attempt on a held file fails at once, with the contention
\* result, and ends the invocation; a worker inside process_single_file can
\* always take its next step whatever the other workers do (it never
\* waits); and every invocation comes to its end.
C24_NeverWaits ==
    /\ [](\A w \in Workers : Active(w) => ENABLED WorkerStep(w))
    /\ [][\A w \in Workers :
             (pc[w] = "flock" /\ pc'[w] # pc[w] /\ ~FlockSucceeds(fd[w]))
             => (pc'[w] \in {"idle", "crashed"}
                 /\ (pc'[w] = "idle" => Returned(w).error = ErrNoLock))]_vars
    /\ \A w \in Workers : Active(w) ~> ~Active(w)

\* a worker has returned the contention result while the worker that
\* holds the lock is still processing
C24_Witness ==
    \E i \in Insts : \E k \in 1..Len(results[i]) : \E w \in Workers :
        /\ results[i][k].error = ErrNoLock
        /\ pc[w] = "process"
        /\ FileOf(w) = results[i][k].file_path
        /\ InstOf(w) # i

\* C25: in an execution without a killed worker, once every invocation of
\* process_single_file for F has returned, F's lock artifact does not exist.
C25_LockArtifactEphemeral ==
    \A f \in Files : (crashes = 0 /\ AllReturned(f)) => lockPath[f] = 0

\* a file that saw a failure, a contention result and then a completed
\* pass, with every invocation for it returned
C25_Witness ==
    \E f \in Files :
        /\ crashes = 0
        /\ failures = 1
        /\ AllReturned(f)
        /\ marker[f].exists
        /\ Len(output[f]) > StreamLen
        /\ \E i \in Insts : \E k \in 1..Len(results[i]) :
               results[i][k].file_path = f /\ results[i][k].error = ErrNoLock

\* C28: in the summary of a run every result is in exactly one of the
\* classes processed (success, no note), skipped (success with a note) and
\* failed (no success); the three counts add up to the number of files
\* dispatched; the page and revision totals are the sums over the processed
\* results, skipped and failed results carrying zero counts.
C28_SummaryClassification ==
    \A i \in Insts :
        (ipc[i] = "finished" /\ worker_args[i] # <<>>)
        => LET rs == results[i]
               n == Len(rs)
               processed == {k \in 1..n : rs[k].success /\ rs[k].error = ErrNone}
               skipped == {k \in 1..n : rs[k].success /\ rs[k].error # ErrNone}
               failed == {k \in 1..n : ~rs[k].success}
           IN  /\ n = Len(worker_args[i])
               /\ summary[i].total = n
               /\ summary[i].processed = Cardinality(processed)
               /\ summary[i].skipped = Cardinality(skipped)
               /\ summary[i].failed = Cardinality(failed)
               /\ summary[i].processed + summary[i].skipped + summary[i].failed = n
               /\ summary[i].total_pages = ProcessedPages(rs, n)
               /\ summary[i].total_revisions = ProcessedRevisions(rs, n)
               /\ \A k \in skipped \cup failed :
                      rs[k].page_count = 0 /\ rs[k].revision_count = 0

\* the summary of a run with one failed and one processed file, the failure
\* having come after a page was written
C28_Witness ==
    \E i \in Insts :
        /\ ipc[i] = "finished"
        /\ summary[i].total = 2
        /\ summary[i].failed = 1
        /\ summary[i].processed = 1
        /\ summary[i].total_pages = StreamLen
        /\ \E f \in Files : Len(output[f]) > StreamLen

\* C29: while a worker holds F's lock, the path of F's lock artifact exists
\* and names the file that worker has locked (no release of another worker
\* has removed it), so that every other acquire attempt for F fails.
C29_ReleaseKeepsHeldArtifact ==
    \A w \in Workers :
        (InsideLock(w) /\ HoldsLock(w))
        => /\ lockPath[FileOf(w)] = fd[w]
           /\ ~AcquireWouldSucceed(FileOf(w))

\* C30: a marker for F is written only by a worker that is processing F
\* under a lock it holds and has walked F's stream to its end without an
\* exception; a marker that exists records the counts of a whole pass.
C30_MarkerCertifiesPass ==
    /\ [](\A f \in Files :
             marker[f].exists
             => /\ marker[f].page_count = StreamLen
                /\ Len(output[f]) >= StreamLen)
    /\ [][\A f \in Files :
             marker'[f] # marker[f]
             => \E w \in Workers :
                    /\ pc[w] = "process"
                    /\ FileOf(w) = f
                    /\ HoldsLock(w)
                    /\ processor[w].page_count = StreamLen
                    /\ marker'[f].pid = w
                    /\ result'[w].success
                    /\ result'[w].error = ErrNone]_vars

\* a marker written by the second attempt on a file whose first attempt
\* raised
C30_Witness ==
    \E f \in Files :
        /\ marker[f].exists
        /\ failures = 1
        /\ Len(output[f]) > StreamLen
        /\ \E i \in Insts : \E k \in 1..Len(results[i]) :
               results[i][k].file_path = f /\ results[i][k].error = ErrException

\* C21: the record written for a revision whose contributor block has a
\* <username> carries that name and is not anonymous; for a block without
\* <username> it carries the <ip> and is anonymous; for a revision without
\* contributor block it has no author id, no name and is not anonymous.
C21_Authorship ==
    [][(AtRevision /\ Emits)
       => LET c == rev.contributor
              rec == out'[Len(out')]
          IN  /\ (c # None /\ c[1].username # None)
                 => (rec.username = c[1].username /\ ~rec.is_anonymous)
              /\ (c # None /\ c[1].username = None)
                 => (rec.username = c[1].ip /\ rec.is_anonymous)
              /\ c = None
                 => (rec.user_id = None /\ rec.username = None
                     /\ ~rec.is_anonymous)]_vars

\* a record of an anonymous edit, named by its network address
C21_Witness ==
    \E k \in 1..Len(out) :
        /\ out[k].is_anonymous
        /\ out[k].username = <<"i">>
        /\ out[k].user_id = None

\* C22: the progress cadence does not influence the result: the step that
\* writes a record under the cadence in force is the very step the
\* processor takes under every other cadence (same output, same counters,
\* same continuation); no other step reads the cadence.
C22_CadenceNoInfluence ==
    [][\A n \in Cadences : (AtRevision /\ Emits) => WriteRecord(n)]_vars

\* C26: when a page outside the content namespace is discarded, none of its
\* revisions has been built.
C26_NonContentNotBuilt ==
    [][mainpc = "process"
       => \A k \in 1..Len(stream) :
              Discards(k) => BuiltRevisions(k, built') = 0]_vars

\* C27: during a traversal at most one page is resident with its
\* revisions: a page is released before the revisions of the next one are
\* built.
C27_OnePageResident ==
    Cardinality(ResidentPages) <= 1

\* C31: when no processing attempt has raised and no worker was killed,
\* and every instance that was started has finished with no invocation
\* still running, every file of the set has a completion marker.
C31_AllMarkedWithoutFailures ==
    (/\ failures = 0
     /\ crashes = 0
     /\ \E i \in Insts : runs[i] > 0
     /\ \A i \in Insts : ipc[i] \in {"start", "finished"}
     /\ \A w \in Workers : ~Active(w))
    => \A f \in Files : marker[f].exists

\* all instances have finished without a failure, one of them having lost
\* a lock to a worker of the other
C31_Witness ==
    /\ failures = 0
    /\ crashes = 0
    /\ \A i \in Insts : ipc[i] = "finished" /\ runs[i] = 1
    /\ \A f \in Files : marker[f].exists
    /\ \E i \in Insts : \E k \in 1..Len(results[i]) : results[i][k].error = ErrNoLock

\* C32: whenever a completion marker exists for a file, its revision_count
\* is the number of records in the file's output artifact and its
\* page_count the number of pages those records come from.
C32_MarkerCountsDescribeOutput ==
    \A f \in Files :
        marker[f].exists
        => /\ marker[f].revision_count = Len(output[f])
           /\ marker[f].page_count =
                  Cardinality({output[f][k] : k \in 1..Len(output[f])})

\* C36: while a worker holds a file's lock, the lock artifact holds that
\* worker's process id, and no step of another worker changes the content
\* of the artifact.
C36_FailedAcquireKeepsContent ==
    /\ [](\A w \in Workers :
             (InsideLock(w) /\ HoldsLock(w)) => content[fd[w]] = w)
    /\ [][\A w \in Workers :
             (InsideLock(w) /\ HoldsLock(w) /\ pc'[w] = pc[w])
             => content'[fd[w]] = content[fd[w]]]_vars

\* C33: at every point of a processor's life revision_count is the number
\* of records it has appended to the output and page_count the number of
\* content pages it has walked to their end; neither counter decreases.
C33_CounterConsistency ==
    /\ [](revision_count = Len(out) /\ page_count = TraversedContent)
    /\ [][revision_count' >= revision_count /\ page_count' >= page_count]_vars

\* main() is done after two files, a non-content page among their pages
C33_Witness ==
    /\ mainpc = "done"
    /\ idx = 2
    /\ page_count = 3
    /\ revision_count = 3
    /\ \E j \in 1..Len(batch[1]) : ~IsContent(batch[1][j])

\* C34: a page outside the content namespace is passed without a record,
\* without a change of the counters and without the ceiling stop, also when
\* the ceiling is already reached.
C34_NonContentInvisible ==
    [][AtNonContent
       => /\ page_pos' = page_pos + 1
          /\ out' = out
          /\ page_count' = page_count
          /\ revision_count' = revision_count
          /\ finished' = finished
          /\ mainpc' = mainpc]_vars

\* a non-content page has just been passed with the ceiling reached
C34_Witness ==
    /\ mainpc = "process"
    /\ ~in_page
    /\ page_pos >= 1
    /\ ~IsContent(stream[page_pos])
    /\ CeilingReached(max_pages, page_count)
    /\ ~finished

\* C35: for every configured ceiling M >= 0 at most M pages are processed;
\* with M = 0 no record is written and, when the batch has a content page,
\* main() ends with the ceiling reported as reached.
C35_ZeroCeilingHonoured ==
    max_pages # None
    => /\ page_count <= max_pages[1]
       /\ max_pages[1] = 0 => out = <<>>
       /\ (mainpc = "done" /\ max_pages[1] = 0
           /\ Qualifying(batch, Len(batch)) # <<>>) => finished

====
